---- MODULE Spec2Model ----
(***************************************************************************)
(* A model of movie-feed's person/combined_credits route: the query        *)
(* deserialisation, the release-status classifier, the release-date        *)
(* comparator, the guid hasher, the size bound and the handler that merges *)
(* cast and crew, filters, sorts, truncates and builds the feed items.     *)
(*                                                                         *)
(* Dates (chrono::NaiveDate) are day numbers counted from 0001-01-01,      *)
(* durations (chrono::TimeDelta) are whole days plus seconds, Option<T> is *)
(* a sequence of length 0 (None) or 1 (Some), Ordering is one of the       *)
(* strings "Less", "Equal", "Greater".                                     *)
(***************************************************************************)
EXTENDS Integers, Sequences, FiniteSets, TLC

VARIABLES
    pc,        \* position of the handler: "idle", "person", "credits", "filter",
               \* "done", "rejected" (by the extractor), "failed" (upstream)
    sort_order,\* the sort_order parameter of the query string
    upstream,  \* the upstream requests the handler has issued, with their replies
    response,  \* the response returned to the feed client, once there is one
    query,     \* the handler's QueryArgs, once deserialised
    cast,      \* credits.cast as returned by the upstream call
    crew,      \* credits.crew as returned by the upstream call
    idx,       \* number of merged credits the filter has consumed
    filtered,  \* the Vec collected by collect_vec(), before sort_by
    credits,   \* the handler's `credits` Vec (sorted in place by sort_by)
    items,     \* the handler's `items` Vec
    clock,     \* the date Utc::now() falls on
    ticks,     \* number of midnights passed since the request arrived
    nows,      \* dates the classifier has read from the clock in this run
    store,     \* the cache of person::get: per person id, the entry if any
    instant,   \* the monotonic clock of the cache, in seconds
    calls,     \* the calls of the cached person::get made so far
    tasks,     \* concurrent callers of person::get: position, person id, result
    key_locks, \* per person id, the caller that holds the key's write lock
    sent,      \* per person id, the results of the upstream requests made
    probe      \* last call of a pure function: its inputs and its result

handlerVars == <<pc, sort_order, upstream, response, query, cast, crew, idx, filtered,
                 credits, items, clock, ticks, nows>>

cacheVars == <<store, instant, calls, tasks, key_locks, sent>>

\* everything but probe
pipeVars == <<handlerVars, cacheVars>>

vars == <<handlerVars, cacheVars, probe>>

-----------------------------------------------------------------------------
(* Option<T> and small helpers *)

None == <<>>

Some(x) == <<x>>

IsSome(o) == Len(o) = 1

Unwrap(o) == o[1]

Min(a, b) == IF a < b THEN a ELSE b

Range(s) == {s[i] : i \in DOMAIN s}

\* sequences over S of length at most n
SeqsUpTo(S, n) == UNION {[1..k -> S] : k \in 0..n}

\* number of positions of s holding x
Count(x, s) == Cardinality({i \in DOMAIN s : s[i] = x})

-----------------------------------------------------------------------------
(* Bounds of the model *)

\* most credits (cast and crew together) in one upstream response
MaxCredits == 2

\* most midnights that pass while one request is being served
MaxTicks == 1

\* longest list of optional dates handed to the comparator on its own
MaxSortLen == 3

\* largest raw integer handed to the Size constructors
MaxRawSize == 60

\* the release dates handed to check lie at most this many days from now
MaxDayOffset == 43

\* most calls of the cached person::get in one behaviour
MaxCalls == 3

MaxTasks == 3

\* the latest instant of the cache clock, in seconds
MaxInstant == 7200

-----------------------------------------------------------------------------
(* Program constants *)

\* const SIZE: usize = 20 (the handler's default number of items)
SIZE == 20

\* const DEFAULT_SIZE_USIZE: usize = 20
DEFAULT_SIZE_USIZE == 20

\* const MAX_SIZE_USIZE: usize = 50
MAX_SIZE_USIZE == 50

\* the hard-coded test clock, 2025-09-18, as a day number
Today == 739512

\* NaiveDate::MIN (-262143-01-01) and NaiveDate::MAX (+262142-12-31)
NaiveDateMin == -95746129

NaiveDateMax == 95745399

\* seconds in a day: TimeDelta::num_days() divides by it
SecsPerDay == 86400

\* the dates of the comparator's tests: 1990-06-01, 2025-05-14, 2026-01-01
Date1990 == 726619

Date2025 == 739385

Date2026 == 739617

-----------------------------------------------------------------------------
(* ReleaseStatus and its deserialisation from the query string *)

Unreleased(mtur) == [tag |-> "Unreleased", max_time_until_release |-> mtur]

Released(maxAge, minAge) == [tag |-> "Released", max_age |-> maxAge, min_age |-> minAge]

HasReleaseDate(mtur, maxAge) ==
    [tag |-> "HasReleaseDate", max_time_until_release |-> mtur, max_age |-> maxAge]

NoReleaseDate == [tag |-> "NoReleaseDate"]

All == [tag |-> "All"]

\* a Default that admits everything
ReleaseStatusDefault_All == All

\* impl Default for ReleaseStatus
ReleaseStatusDefault == HasReleaseDate(None, None)

Ok(v) == [ok |-> TRUE, value |-> v, err |-> "none"]

Err(e) == [ok |-> FALSE, value |-> None, err |-> e]

\* A TimeDelta that is not negative: whole days and the seconds of the
\* unfinished day
TimeDelta(days, secs) == [days |-> days, secs |-> secs]

\* TimeDelta::seconds(n) for n >= 0
TimeDeltaSeconds(n) == TimeDelta(n \div SecsPerDay, n % SecsPerDay)

\* `<` on TimeDelta
TimeDeltaLt(a, b) == a.days < b.days \/ (a.days = b.days /\ a.secs < b.secs)

\* num_days counting a started day as a whole one
num_days_RoundedUp(delta) == IF delta.secs > 0 THEN delta.days + 1 ELSE delta.days

\* TimeDelta::num_days
num_days(delta) == delta.days

\* A duration parameter of the query string: a well-formed humantime string
\* denoting `secs` seconds ("secs") or `secs` days ("days"), a string
\* humantime cannot parse ("bad"), or a well-formed duration too long for a
\* TimeDelta ("huge").
RawDuration(kind, secs) == [kind |-> kind, secs |-> secs]

\* deserialize_time_delta: humantime::Duration::from_str, then TimeDelta::from_std
deserialize_time_delta(raw) ==
    CASE raw.kind = "bad"  -> Err("humantime")
      [] raw.kind = "huge" -> Err("out_of_range")
      [] raw.kind = "days" -> Ok(Some(TimeDelta(raw.secs, 0)))
      [] OTHER             -> Ok(Some(TimeDeltaSeconds(raw.secs)))

\* #[serde(default, deserialize_with = "deserialize_time_delta")] on a field:
\* an absent parameter is the default None, a present one goes to the function
DurationField(rawOpt) ==
    IF IsSome(rawOpt) THEN deserialize_time_delta(Unwrap(rawOpt)) ELSE Ok(None)

\* derive(Deserialize) with #[serde(tag = "release_status")]: the tag selects
\* the variant, the variant's own fields are read, every other key is ignored
ReleaseStatusDeserialize(raw) ==
    LET mtur   == DurationField(raw.max_time_until_release)
        maxAge == DurationField(raw.max_age)
        minAge == DurationField(raw.min_age)
    IN  IF ~IsSome(raw.release_status) THEN Err("missing_tag")
        ELSE CASE Unwrap(raw.release_status) = "Unreleased" ->
                    IF mtur.ok THEN Ok(Unreleased(mtur.value)) ELSE Err(mtur.err)
               [] Unwrap(raw.release_status) = "Released" ->
                    IF ~maxAge.ok THEN Err(maxAge.err)
                    ELSE IF ~minAge.ok THEN Err(minAge.err)
                    ELSE Ok(Released(maxAge.value, minAge.value))
               [] Unwrap(raw.release_status) = "HasReleaseDate" ->
                    IF ~mtur.ok THEN Err(mtur.err)
                    ELSE IF ~maxAge.ok THEN Err(maxAge.err)
                    ELSE Ok(HasReleaseDate(mtur.value, maxAge.value))
               [] Unwrap(raw.release_status) = "NoReleaseDate" -> Ok(NoReleaseDate)
               [] Unwrap(raw.release_status) = "All" -> Ok(All)
               [] OTHER -> Err("unknown_variant")

\* `<` on Option<TimeDelta> (derived PartialOrd): None is below every Some
OptionLt(a, b) ==
    IF IsSome(a) THEN (IsSome(b) /\ TimeDeltaLt(Unwrap(a), Unwrap(b))) ELSE IsSome(b)

\* deserialize_release_status passing the deserialisation error on (`?` for
\* unwrap_or_default)
deserialize_release_status_Propagating(raw) ==
    LET r == ReleaseStatusDeserialize(raw)
    IN  IF ~r.ok THEN Err(r.err)
        ELSE IF r.value.tag = "Released" /\ OptionLt(r.value.max_age, r.value.min_age)
        THEN Err("MaxAgeSmaller")
        ELSE Ok(r.value)

\* deserialize_release_status
deserialize_release_status(raw) ==
    LET r       == ReleaseStatusDeserialize(raw)
        release == IF r.ok THEN r.value ELSE ReleaseStatusDefault
    IN  IF release.tag = "Released" /\ OptionLt(release.max_age, release.min_age)
        THEN Err("MaxAgeSmaller")
        ELSE Ok(release)

\* The handler's QueryArgs { size: Option<usize>, release_status (flattened) }.
\* raw.size is None when the parameter is absent, else the integer its digits
\* denote; usize::from_str refuses a sign ("invalid digit found in string").
QueryArgsDeserialize(raw) ==
    LET rs == deserialize_release_status(raw)
    IN  IF IsSome(raw.size) /\ Unwrap(raw.size) < 0 THEN Err("invalid_digit")
        ELSE IF ~rs.ok THEN Err(rs.err)
        ELSE Ok([size |-> raw.size, release_status |-> rs.value])

-----------------------------------------------------------------------------
(* ReleaseStatus::check *)

\* the date arithmetic clamping to NaiveDate::MIN ..= NaiveDate::MAX instead
\* of giving None
CheckedAddDays_Saturating(date, days) ==
    IF date + days < NaiveDateMin THEN Some(NaiveDateMin)
    ELSE IF date + days > NaiveDateMax THEN Some(NaiveDateMax)
    ELSE Some(date + days)

\* NaiveDate::checked_add_signed / checked_sub_signed: the duration is cut to
\* whole days, the result is None outside NaiveDate::MIN ..= NaiveDate::MAX
CheckedAddDays(date, days) ==
    IF date + days < NaiveDateMin \/ date + days > NaiveDateMax
    THEN None ELSE Some(date + days)

checked_add_signed(date, delta) == CheckedAddDays(date, num_days(delta))

checked_sub_signed(date, delta) == CheckedAddDays(date, 0 - num_days(delta))

\* check_max_time_until_release admitting the bound itself (le for lt)
check_max_time_until_release_Inclusive(now, release_date, max_time_until_release) ==
    IF IsSome(max_time_until_release)
    THEN LET max_release_date == checked_add_signed(now, Unwrap(max_time_until_release))
         IN  IsSome(max_release_date) /\ release_date <= Unwrap(max_release_date)
    ELSE TRUE

check_max_time_until_release(now, release_date, max_time_until_release) ==
    IF IsSome(max_time_until_release)
    THEN LET max_release_date == checked_add_signed(now, Unwrap(max_time_until_release))
         IN  IsSome(max_release_date) /\ release_date < Unwrap(max_release_date)
    ELSE TRUE

\* check_max_age refusing the bound itself (le for lt)
check_max_age_Exclusive(now, release_date, max_age) ==
    IF IsSome(max_age)
    THEN LET max_age_date == checked_sub_signed(now, Unwrap(max_age))
         IN  IsSome(max_age_date) /\ ~(release_date <= Unwrap(max_age_date))
    ELSE TRUE

check_max_age(now, release_date, max_age) ==
    IF IsSome(max_age)
    THEN LET max_age_date == checked_sub_signed(now, Unwrap(max_age))
         IN  IsSome(max_age_date) /\ ~(release_date < Unwrap(max_age_date))
    ELSE TRUE

\* check_min_age refusing the bound itself (ge for gt)
check_min_age_Exclusive(now, release_date, min_age) ==
    IF IsSome(min_age)
    THEN LET min_age_date == checked_sub_signed(now, Unwrap(min_age))
         IN  IsSome(min_age_date) /\ ~(release_date >= Unwrap(min_age_date))
    ELSE TRUE

check_min_age(now, release_date, min_age) ==
    IF IsSome(min_age)
    THEN LET min_age_date == checked_sub_signed(now, Unwrap(min_age))
         IN  IsSome(min_age_date) /\ ~(release_date > Unwrap(min_age_date))
    ELSE TRUE

\* TRUE when check() reaches its call of Utc::now() / date_now()
ReadsClock(self, release_date) ==
    self.tag \in {"Unreleased", "Released", "HasReleaseDate"} /\ IsSome(release_date)

\* check with All admitting only the credits that have a release date
check_AllNeedsDate(self, release_date, now) ==
    CASE self.tag = "Unreleased" ->
            IF ~IsSome(release_date) THEN TRUE
            ELSE /\ Unwrap(release_date) > now
                 /\ check_max_time_until_release(now, Unwrap(release_date),
                                                 self.max_time_until_release)
      [] self.tag = "Released" ->
            IF ~IsSome(release_date) THEN FALSE
            ELSE /\ Unwrap(release_date) <= now
                 /\ check_max_age(now, Unwrap(release_date), self.max_age)
                 /\ check_min_age(now, Unwrap(release_date), self.min_age)
      [] self.tag = "HasReleaseDate" ->
            IF ~IsSome(release_date) THEN FALSE
            ELSE /\ check_max_time_until_release(now, Unwrap(release_date),
                                                 self.max_time_until_release)
                 /\ check_max_age(now, Unwrap(release_date), self.max_age)
      [] self.tag = "NoReleaseDate" -> ~IsSome(release_date)
      [] OTHER -> IsSome(release_date)

\* check(&self, release_date); `now` is what the clock shows when it is read
check(self, release_date, now) ==
    CASE self.tag = "Unreleased" ->
            IF ~IsSome(release_date) THEN TRUE
            ELSE /\ Unwrap(release_date) > now
                 /\ check_max_time_until_release(now, Unwrap(release_date),
                                                 self.max_time_until_release)
      [] self.tag = "Released" ->
            IF ~IsSome(release_date) THEN FALSE
            ELSE /\ Unwrap(release_date) <= now
                 /\ check_max_age(now, Unwrap(release_date), self.max_age)
                 /\ check_min_age(now, Unwrap(release_date), self.min_age)
      [] self.tag = "HasReleaseDate" ->
            IF ~IsSome(release_date) THEN FALSE
            ELSE /\ check_max_time_until_release(now, Unwrap(release_date),
                                                 self.max_time_until_release)
                 /\ check_max_age(now, Unwrap(release_date), self.max_age)
      [] self.tag = "NoReleaseDate" -> ~IsSome(release_date)
      [] OTHER -> TRUE

-----------------------------------------------------------------------------
(* The release-date comparators and the stable sort *)

\* a cmp that never answers Equal
DateCmp_NeverEqual(a, b) == IF a < b THEN "Less" ELSE "Greater"

\* NaiveDate::cmp
DateCmp(a, b) == IF a < b THEN "Less" ELSE IF a > b THEN "Greater" ELSE "Equal"

\* sort_release_date with the absent-date arms of Ascending swapped
sort_release_date_AscendingNoneFirst(self, a, b) ==
    IF self = "Descending"
    THEN CASE ~IsSome(a) /\ ~IsSome(b) -> "Equal"
           [] ~IsSome(a) /\ IsSome(b)  -> "Less"
           [] IsSome(a) /\ ~IsSome(b)  -> "Greater"
           [] OTHER                    -> DateCmp(Unwrap(b), Unwrap(a))
    ELSE CASE ~IsSome(a) /\ ~IsSome(b) -> "Equal"
           [] ~IsSome(a) /\ IsSome(b)  -> "Less"
           [] IsSome(a) /\ ~IsSome(b)  -> "Greater"
           [] OTHER                    -> DateCmp(Unwrap(a), Unwrap(b))

\* SortReleaseDates::sort_release_date(&self, a, b)
sort_release_date(self, a, b) ==
    IF self = "Descending"
    THEN CASE ~IsSome(a) /\ ~IsSome(b) -> "Equal"
           [] ~IsSome(a) /\ IsSome(b)  -> "Less"
           [] IsSome(a) /\ ~IsSome(b)  -> "Greater"
           [] OTHER                    -> DateCmp(Unwrap(b), Unwrap(a))
    ELSE CASE ~IsSome(a) /\ ~IsSome(b) -> "Equal"
           [] ~IsSome(a) /\ IsSome(b)  -> "Greater"
           [] IsSome(a) /\ ~IsSome(b)  -> "Less"
           [] OTHER                    -> DateCmp(Unwrap(a), Unwrap(b))

\* sort_release_date_descending comparing two dates as a.cmp(b)
sort_release_date_descending_Unreversed(a, b) ==
    CASE ~IsSome(a) /\ ~IsSome(b) -> "Equal"
      [] ~IsSome(a) /\ IsSome(b)  -> "Less"
      [] IsSome(a) /\ ~IsSome(b)  -> "Greater"
      [] OTHER                    -> DateCmp(Unwrap(a), Unwrap(b))

\* sort_release_date_descending(a, b), the comparator the handler sorts with
sort_release_date_descending(a, b) ==
    CASE ~IsSome(a) /\ ~IsSome(b) -> "Equal"
      [] ~IsSome(a) /\ IsSome(b)  -> "Less"
      [] IsSome(a) /\ ~IsSome(b)  -> "Greater"
      [] OTHER                    -> DateCmp(Unwrap(b), Unwrap(a))

\* the comparator named by `by`: a SortReleaseDates value, or "handler" for
\* the free function
Compare(by, a, b) ==
    IF by = "handler" THEN sort_release_date_descending(a, b)
    ELSE sort_release_date(by, a, b)

\* an insertion that also moves x left past the elements it is Equal to
RECURSIVE InsertSorted_PastEquals(_, _, _)
InsertSorted_PastEquals(s, x, by) ==
    IF s = <<>> THEN <<x>>
    ELSE IF Compare(by, x.key, s[Len(s)].key) # "Greater"
         THEN Append(InsertSorted_PastEquals(SubSeq(s, 1, Len(s) - 1), x, by), s[Len(s)])
         ELSE Append(s, x)

\* One insertion of a stable sort: x, which came after every element of the
\* sorted prefix s, moves left past the elements it is strictly Less than.
RECURSIVE InsertSorted(_, _, _)
InsertSorted(s, x, by) ==
    IF s = <<>> THEN <<x>>
    ELSE IF Compare(by, x.key, s[Len(s)].key) = "Less"
         THEN Append(InsertSorted(SubSeq(s, 1, Len(s) - 1), x, by), s[Len(s)])
         ELSE Append(s, x)

\* slice::sort_by (a stable sort) over elements [key, val], ordered by key
RECURSIVE SortBy(_, _)
SortBy(s, by) ==
    IF s = <<>> THEN <<>>
    ELSE InsertSorted(SortBy(SubSeq(s, 1, Len(s) - 1), by), s[Len(s)], by)

\* dates.sort_by(|a, b| cmp(a.as_ref(), b.as_ref())) on a Vec<Option<NaiveDate>>
SortDates(dates, by) ==
    LET keyed  == [i \in DOMAIN dates |-> [key |-> dates[i], val |-> dates[i]]]
        sorted == SortBy(keyed, by)
    IN  [i \in DOMAIN sorted |-> sorted[i].val]

\* v.sort_by(|a, b| cmp(a.date, b.date)) on a Vec whose entries carry their
\* place in the input next to the date
SortTagged(dates, by) ==
    SortBy([i \in DOMAIN dates |-> [key |-> dates[i], val |-> i]], by)

-----------------------------------------------------------------------------
(* Credits *)

\* Credit::Cast(cast) / Credit::Crew(crew)
CreditCast(c) == [credit_type |-> "Cast", inner |-> c]

CreditCrew(c) == [credit_type |-> "Crew", inner |-> c]

\* IsCredit accessors, forwarded to the wrapped cast or crew entry
id(credit) == credit.inner.id

title(credit) == credit.inner.title

release_date(credit) == credit.inner.release_date

media_type(credit) == credit.inner.media_type

credit_type(credit) == credit.credit_type

genres(credit) == credit.inner.genres

\* the handler without its sort_by
SortCreditsSkipped(cs) == cs

\* credits.sort_by(|a, b| sort_release_date_descending(a.release_date(), b.release_date()))
SortCredits(cs) ==
    LET keyed  == [i \in DOMAIN cs |-> [key |-> release_date(cs[i]), val |-> cs[i]]]
        sorted == SortBy(keyed, "handler")
    IN  [i \in DOMAIN sorted |-> sorted[i].val]

\* a closure that never picks the left element
MergeFirst_Never(a, b) == FALSE

\* the closure |_a, _b| true handed to merge_by
MergeFirst(a, b) == TRUE

\* itertools merge_by(cast, crew, |_a, _b| true): while both iterators have an
\* element the predicate decides, and it always picks the left one
RECURSIVE merge_by(_, _)
merge_by(a, b) ==
    IF a = <<>> THEN b
    ELSE IF b = <<>> THEN a
    ELSE IF MergeFirst(Head(a), Head(b)) THEN <<Head(a)>> \o merge_by(Tail(a), b)
    ELSE <<Head(b)>> \o merge_by(a, Tail(b))

Merged(castList, crewList) ==
    merge_by([i \in DOMAIN castList |-> CreditCast(castList[i])],
             [i \in DOMAIN crewList |-> CreditCrew(crewList[i])])

\* take() yielding one element more than asked
TakeOneMore(s, n) == SubSeq(s, 1, Min(n + 1, Len(s)))

\* Iterator::take(n)
Take(s, n) == SubSeq(s, 1, Min(n, Len(s)))

-----------------------------------------------------------------------------
(* credit_guid: std's derived Hash over a DefaultHasher *)

\* bytes of the strings that occur as titles
Utf8(str) ==
    CASE str = "Alien" -> <<65, 108, 105, 101, 110>>
      [] str = "Brazil" -> <<66, 114, 97, 122, 105, 108>>
      [] OTHER -> <<>>

\* what each Hash impl feeds the hasher, as a sequence of words
HashUsize(n) == <<n>>

\* str: its bytes, then 0xff
HashStr(str) == Utf8(str) \o <<255>>

\* Option<&NaiveDate>: the discriminant, then the date
HashOptionDate(d) == IF IsSome(d) THEN <<1, Unwrap(d)>> ELSE <<0>>

\* MediaType: the discriminant (Movie = 0, Tv = 1)
HashMediaType(m) == IF m = "Movie" THEN <<0>> ELSE <<1>>

\* CreditType: the discriminant (Cast = 0, Crew = 1)
HashCreditType(t) == IF t = "Cast" THEN <<0>> ELSE <<1>>

\* width of the modelled hash value (the program's is 64 bits)
HashBits == 16

\* Hasher::finish over the words written: a multiplicative mix, cut to HashBits
RECURSIVE HasherFinish(_)
HasherFinish(words) ==
    IF words = <<>> THEN 5381
    ELSE (HasherFinish(SubSeq(words, 1, Len(words) - 1)) * 33 + words[Len(words)]) % (2 ^ HashBits)

\* credit_guid hashing the character as well
GuidWordsWithCharacter(credit) ==
    HashUsize(credit.inner.id) \o HashStr(credit.inner.title)
        \o HashOptionDate(credit.inner.release_date)
        \o HashMediaType(credit.inner.media_type) \o HashCreditType(credit.credit_type)
        \o (IF credit.credit_type = "Cast" /\ IsSome(credit.inner.character)
            THEN <<1>> ELSE <<0>>)

\* the words credit_guid writes, in the order it writes them
GuidWords(credit) ==
    HashUsize(id(credit)) \o HashStr(title(credit)) \o HashOptionDate(release_date(credit))
        \o HashMediaType(media_type(credit)) \o HashCreditType(credit_type(credit))

\* credit_guid(credit): GuidBuilder with value = hasher.finish().to_string()
credit_guid(credit) ==
    [value |-> ToString(HasherFinish(GuidWords(credit))), permalink |-> FALSE]

-----------------------------------------------------------------------------
(* Size *)

\* SizeInner::try_from comparing with >= instead of >
SizeInnerTryFrom_Ge(size) ==
    IF size >= MAX_SIZE_USIZE THEN Err("ExceedsMaxSize") ELSE Ok(size)

\* impl TryFrom<NonZeroUsize> for SizeInner
SizeInnerTryFrom(size) ==
    IF size > MAX_SIZE_USIZE THEN Err("ExceedsMaxSize") ELSE Ok(size)

\* NonZeroUsize::try_from(usize)
NonZeroTryFrom(size) == IF size = 0 THEN Err("TryFromInt") ELSE Ok(size)

\* impl TryFrom<usize> for Size
SizeTryFrom(size) ==
    LET nz == NonZeroTryFrom(size)
    IN  IF nz.ok THEN SizeInnerTryFrom(nz.value) ELSE nz

\* impl Default for SizeInner (and the derived Default of Size)
SizeDefault == DEFAULT_SIZE_USIZE

\* impl Deserialize for Size: NonZeroUsize::deserialize, then SizeInner::try_from;
\* raw is the integer the parameter's digits denote
SizeDeserialize(raw) ==
    IF raw < 0 THEN Err("invalid_digit")
    ELSE IF raw = 0 THEN Err("expected_nonzero")
    ELSE SizeInnerTryFrom(raw)

-----------------------------------------------------------------------------
(* Building one feed item *)

\* impl Display for MediaType
MediaTypeDisplay(m) == IF m = "Movie" THEN "Movie" ELSE "TV"

\* MediaType::tmdb_url_prefix
tmdb_url_prefix(m) == IF m = "Movie" THEN "movie" ELSE "tv"

\* IsCredit::tmdb_media_url: SITE_URL joined with "{prefix}/{id}"
tmdb_media_url(credit) ==
    <<"https://www.themoviedb.org/", tmdb_url_prefix(media_type(credit)), "/", ToString(id(credit))>>

\* the genre names joined by ", "
RECURSIVE JoinGenres(_)
JoinGenres(gs) ==
    IF gs = <<>> THEN <<>>
    ELSE IF Len(gs) = 1 THEN <<gs[1]>>
    ELSE <<gs[1], ", ">> \o JoinGenres(Tail(gs))

\* text the cleaner rewrites: markup other than <br> and <p> is dropped, its
\* content kept
Sanitised == ("<i>Ripley</i>" :> "Ripley")

\* sanitise_text: text without markup comes back as it is
sanitise_text(text) == IF text \in DOMAIN Sanitised THEN Sanitised[text] ELSE text

\* the categories with the department of a crew credit among them
ItemCategories_WithDepartment(credit) ==
    <<sanitise_text(MediaTypeDisplay(media_type(credit)))>>
        \o (IF credit_type(credit) = "Cast"
            THEN (IF IsSome(credit.inner.character)
                  THEN <<sanitise_text(Unwrap(credit.inner.character))>> ELSE <<>>)
            ELSE <<credit.inner.department>>)
        \o genres(credit)

\* the categories pushed on the item, in push order
ItemCategories(credit) ==
    <<sanitise_text(MediaTypeDisplay(media_type(credit)))>>
        \o (IF credit_type(credit) = "Cast" /\ IsSome(credit.inner.character)
            THEN <<sanitise_text(Unwrap(credit.inner.character))>> ELSE <<>>)
        \o genres(credit)

\* the description, as the sequence of pieces pushed on the String; the date
\* is formatted with "%d-%b-%Y"
ItemDescription(credit) ==
    <<"<p>">>
        \o (IF credit_type(credit) = "Cast"
            THEN <<"Character: ",
                   IF IsSome(credit.inner.character)
                   THEN Unwrap(credit.inner.character) ELSE "TBA">>
            ELSE <<"Department: ", credit.inner.department,
                   "<br>Job: ", credit.inner.job>>)
        \o <<"<br>Genres: ">> \o JoinGenres(genres(credit))
        \o <<"<br>Language: ", credit.inner.original_language>>
        \o <<"<br>Release Date: ",
             IF IsSome(release_date(credit))
             THEN ToString(Unwrap(release_date(credit))) ELSE "TBA">>
        \o (IF IsSome(credit.inner.overview)
            THEN <<"</p><p>", Unwrap(credit.inner.overview), "</p>">> ELSE <<>>)

\* the body of the handler's for loop: one Item per retained credit
BuildItem(credit) ==
    [guid        |-> credit_guid(credit),
     categories  |-> ItemCategories(credit),
     link        |-> tmdb_media_url(credit),
     title       |-> Some(title(credit)),
     description |-> ItemDescription(credit)]

\* const TTL: Duration = Duration::from_secs(60 * 60), in seconds
TTL == 3600

\* the fixed fields the ChannelBuilder is given
Channel ==
    [generator |-> Some("Movie Feed <https://github.com/calum4/movie-feed/>"),
     docs      |-> Some("https://www.rssboard.org/rss-specification"),
     ttl       |-> Some(ToString(TTL * 60))]

\* query.size.unwrap_or(SIZE)
ItemsSize(q) == IF IsSome(q.size) THEN Unwrap(q.size) ELSE SIZE

\* the entries of s whose guid no earlier entry has
RECURSIVE UniqueByGuid(_)
UniqueByGuid(cs) ==
    IF cs = <<>> THEN <<>>
    ELSE LET rest == UniqueByGuid(SubSeq(cs, 1, Len(cs) - 1))
             last == cs[Len(cs)]
         IN  IF \E i \in DOMAIN rest : credit_guid(rest[i]) = credit_guid(last)
             THEN rest ELSE Append(rest, last)

\* the for loop over credits deduplicated by guid
BuildItemsUniqueByGuid(cs, n) ==
    [i \in DOMAIN Take(UniqueByGuid(cs), n) |-> BuildItem(Take(UniqueByGuid(cs), n)[i])]

\* for credit in credits.into_iter().take(items_size) { ... items.push(item.build()) }
BuildItems(cs, n) == [i \in DOMAIN Take(cs, n) |-> BuildItem(Take(cs, n)[i])]

-----------------------------------------------------------------------------
(* Inputs of the handler *)

PipeDates == {None, Some(Today), Some(Today + 1)}

\* entries of the upstream response's cast list
CastPool ==
    [media_type : {"Movie"}, id : {1852}, title : {"Alien"}, release_date : PipeDates,
     character : {None, Some("Ripley")}, genres : {<<"Horror">>}, overview : {None},
     original_language : {"en"}, credit_id : {"52fe431b"}]

\* entries of the upstream response's crew list
CrewPool ==
    [media_type : {"Movie"}, id : {1852}, title : {"Alien"}, release_date : PipeDates,
     department : {"Directing"}, job : {"Director"}, genres : {<<"Horror">>},
     overview : {None}, original_language : {"en"}, credit_id : {"52fe4380"}]

\* no entry occurs twice (every entry is another engagement)
NoRepeats(s) == \A i \in DOMAIN s, j \in DOMAIN s : s[i] = s[j] => i = j

\* upstream responses: cast and crew lists of different entries, with at most
\* MaxCredits entries in all
Responses ==
    {r \in SeqsUpTo(CastPool, MaxCredits) \X SeqsUpTo(CrewPool, MaxCredits) :
        Len(r[1]) + Len(r[2]) <= MaxCredits /\ NoRepeats(r[1]) /\ NoRepeats(r[2])}

OneDay == RawDuration("secs", SecsPerDay)

\* query strings: size, release_status and the three duration parameters
\* and sort_order
PipeQueries ==
    [size : {None, Some(0), Some(1), Some(2), Some(MAX_SIZE_USIZE + 1), Some(0 - 5)},
     release_status : {None, Some("Unreleased"), Some("Released"), Some("HasReleaseDate"),
                       Some("NoReleaseDate"), Some("All"), Some("Upcoming")},
     max_time_until_release : {None, Some(OneDay)},
     max_age : {None, Some(OneDay)},
     min_age : {None, Some(OneDay)},
     sort_order : {None, Some("Ascending")}]

-----------------------------------------------------------------------------
(* The upstream client: TmdbError, the endpoint functions, process_response *)

\* the rows of construct_tmdb_error!: <<variant, code, status>>
TmdbErrorTable ==
    << <<"Success", 1, 200>>, <<"InvalidService", 2, 501>>,
       <<"InsufficientPermission", 3, 401>>, <<"InvalidFormat", 4, 405>>,
       <<"InvalidParameters", 5, 422>>, <<"InvalidId", 6, 404>>,
       <<"InvalidApiKey", 7, 401>>, <<"DuplicateEntry", 8, 403>>,
       <<"ServiceOffline", 9, 503>>, <<"SuspendedApiKey", 10, 401>>,
       <<"InternalError", 11, 500>>, <<"ItemUpdateSuccess", 12, 201>>,
       <<"ItemDeleteSuccess", 13, 200>>, <<"AuthenticationFailed", 14, 401>>,
       <<"Failed", 15, 500>>, <<"DeviceDenied", 16, 401>>,
       <<"SessionDenied", 17, 401>>, <<"ValidationFailed", 18, 400>>,
       <<"InvalidAcceptHeader", 19, 406>>, <<"InvalidDateRange", 20, 422>>,
       <<"EntryNotFound", 21, 200>>, <<"InvalidPage", 22, 400>>,
       <<"InvalidDate", 23, 400>>, <<"TimedOut", 24, 504>>,
       <<"RateLimited", 25, 429>>, <<"UserAndPassRequired", 26, 400>>,
       <<"TooManyResponseObjects", 27, 400>>, <<"InvalidTimezone", 28, 400>>,
       <<"RequiresConfirmation", 29, 400>>, <<"InvalidUserOrPass", 30, 401>>,
       <<"AccountDisabled", 31, 401>>, <<"EmailNotVerified", 32, 401>>,
       <<"InvalidRequestToken", 33, 401>>, <<"ResourceNotFound", 34, 404>>,
       <<"InvalidToken", 35, 401>>, <<"TokenRequireWritePerm", 36, 401>>,
       <<"InvalidSession", 37, 404>>, <<"RequiresEditPermission", 38, 401>>,
       <<"Private", 39, 401>>, <<"NothingToUpdate", 40, 200>>,
       <<"TokenNotApproved", 41, 422>>, <<"ReqMethodNotSupported", 42, 405>>,
       <<"NoBackendConnection", 43, 502>>, <<"OtherInvalidId", 44, 500>>,
       <<"UserSuspended", 45, 403>>, <<"Maintenance", 46, 503>>,
       <<"InvalidInput", 47, 400>> >>

\* the table row of a TmdbError variant
TmdbErrorRow(variant) ==
    TmdbErrorTable[CHOOSE i \in DOMAIN TmdbErrorTable : TmdbErrorTable[i][1] = variant]

\* TmdbError::hint_valid_status_code
hint_valid_status_code(status) ==
    \E i \in DOMAIN TmdbErrorTable : TmdbErrorTable[i][3] = status

\* impl TryFrom<(StatusCode, TmdbErrorCode)> for TmdbError
TmdbErrorTryFrom(status, code) ==
    LET hits == {i \in DOMAIN TmdbErrorTable :
                    TmdbErrorTable[i][3] = status /\ TmdbErrorTable[i][2] = code}
    IN  IF hits = {} THEN Err([kind |-> "UnknownTmdbError", variant |-> "UnknownError"])
        ELSE Ok(TmdbErrorTable[CHOOSE i \in hits : \A j \in hits : i <= j][1])

\* TmdbError::try_from_response; reply.code is the body's status_code, None
\* when the body does not deserialise as ErrorData
try_from_response(reply) ==
    IF ~hint_valid_status_code(reply.status)
    THEN Err([kind |-> "UnknownTmdbError", variant |-> "UnknownStatus"])
    ELSE IF ~IsSome(reply.code)
    THEN Err([kind |-> "UnknownTmdbError", variant |-> "UnknownStatus"])
    ELSE TmdbErrorTryFrom(reply.status, Unwrap(reply.code))

\* person::get and person::combined_credits::get have one body: the request,
\* the match on the status, the deserialisation of the answer. reply.sent is
\* FALSE when the request could not be sent; reply.valid tells whether the
\* body deserialises as the endpoint's model.
EndpointGet(reply) ==
    IF ~reply.sent THEN Err([kind |-> "Reqwest", variant |-> "send"])
    ELSE IF reply.status = 200
    THEN IF reply.valid THEN Ok("model")
         ELSE Err([kind |-> "Reqwest", variant |-> "decode"])
    ELSE LET e == try_from_response(reply)
         IN  IF e.ok THEN Err([kind |-> "TmdbError", variant |-> e.value])
             ELSE Err(e.err)

\* TmdbError::status_code, called by process_response: the status of the
\* variant's table row
status_code(variant) == TmdbErrorRow(variant)[3]

\* StatusCode::INTERNAL_SERVER_ERROR.into_response()
InternalServerError == [status |-> 500, body |-> "empty"]

\* process_response answering every upstream error with 500
process_response_Always500(result) ==
    IF result.ok THEN [tag |-> "Ok", value |-> result.value]
    ELSE IF result.err.kind = "TmdbError"
    THEN [tag |-> "Response", value |-> InternalServerError]
    ELSE [tag |-> "Err", value |-> result.err]

\* process_response
process_response(result) ==
    IF result.ok THEN [tag |-> "Ok", value |-> result.value]
    ELSE IF result.err.kind = "TmdbError"
    THEN [tag |-> "Response",
          value |-> [status |-> status_code(result.err.variant),
                     body |-> "error received from tmdb"]]
    ELSE [tag |-> "Err", value |-> result.err]

\* the handler's match on a ProcessedResponse that is not Ok: the response it
\* returns
EarlyReturn(processed) ==
    IF processed.tag = "Response" THEN processed.value ELSE InternalServerError

\* what the upstream server (or the network) does with one request
UpstreamReplies ==
    {[sent |-> FALSE, status |-> 0, code |-> None, valid |-> FALSE]}
    \cup [sent : {TRUE}, status : {200}, code : {None}, valid : BOOLEAN]
    \cup [sent : {TRUE}, status : {201, 401, 404, 429, 500, 600},
          code : {None, Some(6), Some(7), Some(12), Some(25), Some(44), Some(45)},
          valid : {FALSE}]

-----------------------------------------------------------------------------
(* The cache of person::get: #[cached(time = 3600, time_refresh = false,     *)
(* sync_writes = "by_key", key = "i32", result = true)]                      *)

\* time = 3600: the lifespan of an entry, in seconds
CACHE_TIME == 3600

\* the person ids of the cache tests
PersonIds == {19498, 0 - 1}

\* the lookup with the lifespan taken for 60 seconds
cache_get_LifespanOneMinute(cache, person_id, now) ==
    IF IsSome(cache[person_id]) /\ now - Unwrap(cache[person_id]).at < 60
    THEN Some(Unwrap(cache[person_id]).result)
    ELSE None

\* the lookup the macro makes before the function body runs: the entry's
\* value while the entry is younger than the lifespan (time_refresh = false:
\* a lookup does not renew the entry)
cache_get(cache, person_id, now) ==
    IF IsSome(cache[person_id]) /\ now - Unwrap(cache[person_id]).at < CACHE_TIME
    THEN Some(Unwrap(cache[person_id]).result)
    ELSE None

\* the callers that run at the same time
Tasks == 1..MaxTasks

\* a caller that has not called yet
IdleTask == [pc |-> "idle", person_id |-> 0, result |-> None]

\* a lock that any running body keeps taken (sync_writes left at its default)
KeyLockFree_WholeCache(locks, person_id) == \A k \in DOMAIN locks : locks[k] = None

\* sync_writes = "by_key": the write lock of a key is free when no caller
\* runs the body for that key
KeyLockFree(locks, person_id) == locks[person_id] = None

\* the store with every result kept, Err as well as Ok
cache_set_AnyResult(cache, person_id, result, now) ==
    [cache EXCEPT ![person_id] = Some([at |-> now, result |-> result])]

\* the store after the function body has run: result = true keeps only Ok
cache_set(cache, person_id, result, now) ==
    IF result.ok
    THEN [cache EXCEPT ![person_id] = Some([at |-> now, result |-> result])]
    ELSE cache

-----------------------------------------------------------------------------
(* The handler combined_credits *)

NoProbe == [fn |-> "none"]

InitPipe ==
    /\ pc = "idle"
    /\ sort_order = None
    /\ upstream = <<>>
    /\ response = None
    /\ query = [size |-> None, release_status |-> ReleaseStatusDefault]
    /\ cast = <<>>
    /\ crew = <<>>
    /\ idx = 0
    /\ filtered = <<>>
    /\ credits = <<>>
    /\ items = <<>>
    /\ clock = Today
    /\ ticks = 0
    /\ nows = {}

\* the cache starts empty
InitCache ==
    /\ store = [person_id \in PersonIds |-> None]
    /\ instant = 0
    /\ calls = <<>>
    /\ tasks = [t \in Tasks |-> IdleTask]
    /\ key_locks = [person_id \in PersonIds |-> None]
    /\ sent = [person_id \in PersonIds |-> <<>>]

Init == InitPipe /\ InitCache /\ probe = NoProbe

\* A request arrives. Query<QueryArgs> is extracted first: a query string that
\* does not deserialise is answered by the extractor (400 Bad Request) and the
\* handler never runs. QueryArgs has no sort_order field and does not deny
\* unknown fields, so that parameter is dropped.
Request ==
    /\ pc = "idle"
    /\ \E raw \in PipeQueries :
          LET q == QueryArgsDeserialize(raw)
          IN  /\ sort_order' = raw.sort_order
              /\ IF q.ok
                 THEN /\ pc' = "person"
                      /\ query' = q.value
                      /\ response' = response
                 ELSE /\ pc' = "rejected"
                      /\ query' = query
                      /\ response' = Some([status |-> 400, body |-> "query rejection"])
    /\ UNCHANGED <<upstream, cast, crew, idx, filtered, credits, items, clock, ticks, nows,
                   probe, cacheVars>>

\* GetPersonDetails without the early returns: the handler goes on to the
\* combined-credits call whatever the person-details call gave
GetPersonDetails_NoEarlyReturn ==
    /\ pc = "person"
    /\ \E reply \in UpstreamReplies :
          /\ upstream' = Append(upstream, [endpoint |-> "person", reply |-> reply])
          /\ pc' = "credits"
          /\ response' = response
    /\ UNCHANGED <<sort_order, query, cast, crew, idx, filtered, credits, items, clock, ticks,
                   nows, probe, cacheVars>>

\* get_person_details(..).await through process_response: on anything but Ok
\* the handler returns at once.
GetPersonDetails ==
    /\ pc = "person"
    /\ \E reply \in UpstreamReplies :
          LET processed == process_response(EndpointGet(reply))
          IN  /\ upstream' = Append(upstream, [endpoint |-> "person", reply |-> reply])
              /\ IF processed.tag = "Ok"
                 THEN /\ pc' = "credits"
                      /\ response' = response
                 ELSE /\ pc' = "failed"
                      /\ response' = Some(EarlyReturn(processed))
    /\ UNCHANGED <<sort_order, query, cast, crew, idx, filtered, credits, items, clock, ticks,
                   nows, probe, cacheVars>>

\* get_combined_credits(..).await through process_response: on anything but
\* Ok the handler returns at once; on Ok it starts the merge/filter iterator
\* chain over credits.cast and credits.crew.
GetCombinedCredits ==
    /\ pc = "credits"
    /\ \E reply \in UpstreamReplies, r \in Responses :
          LET processed == process_response(EndpointGet(reply))
          IN  /\ upstream' = Append(upstream,
                                    [endpoint |-> "combined_credits", reply |-> reply])
              /\ IF processed.tag = "Ok"
                 THEN /\ pc' = "filter"
                      /\ cast' = r[1]
                      /\ crew' = r[2]
                      /\ response' = response
                 ELSE /\ pc' = "failed"
                      /\ cast' = cast
                      /\ crew' = crew
                      /\ response' = Some(EarlyReturn(processed))
    /\ UNCHANGED <<sort_order, query, idx, filtered, credits, items, clock, ticks, nows,
                   probe, cacheVars>>

\* The filter closure runs on the next merged credit; collect_vec pushes the
\* credit when check() admits it. check() reads the clock itself.
FilterStep ==
    /\ pc = "filter"
    /\ idx < Len(Merged(cast, crew))
    /\ LET credit == Merged(cast, crew)[idx + 1]
       IN  /\ filtered' = IF check(query.release_status, release_date(credit), clock)
                          THEN Append(filtered, credit) ELSE filtered
           /\ nows' = IF ReadsClock(query.release_status, release_date(credit))
                      THEN nows \cup {clock} ELSE nows
    /\ idx' = idx + 1
    /\ credits' = filtered'
    /\ UNCHANGED <<pc, sort_order, upstream, response, query, cast, crew, items, clock,
                   ticks, probe, cacheVars>>

\* The iterator is exhausted: sort_by, then take(items_size) and one item per
\* retained credit; the channel is built and the response returned.
Finish ==
    /\ pc = "filter"
    /\ idx = Len(Merged(cast, crew))
    /\ credits' = SortCredits(filtered)
    /\ items' = BuildItems(credits', ItemsSize(query))
    /\ response' = Some([status |-> 200, body |-> "application/rss+xml",
                          channel |-> Channel])
    /\ pc' = "done"
    /\ UNCHANGED <<sort_order, upstream, query, cast, crew, idx, filtered, clock, ticks,
                   nows, probe, cacheVars>>

\* Midnight (UTC) passes while the handler is between two filter steps.
Tick ==
    /\ pc = "filter"
    /\ ticks < MaxTicks
    /\ clock' = clock + 1
    /\ ticks' = ticks + 1
    /\ UNCHANGED <<pc, sort_order, upstream, response, query, cast, crew, idx, filtered,
                   credits, items, nows, probe, cacheVars>>

Next == Request \/ GetPersonDetails \/ GetCombinedCredits \/ FilterStep \/ Finish \/ Tick

Spec == Init /\ [][Next]_vars

-----------------------------------------------------------------------------
(* The cached person::get called over time *)

\* person::get(&tmdb, person_id) with the cache enabled: a live entry answers
\* the call; otherwise the body runs (one upstream request) and its result
\* goes through cache_set.
PersonGet ==
    /\ Len(calls) < MaxCalls
    /\ \E person_id \in PersonIds, reply \in UpstreamReplies :
          LET found  == cache_get(store, person_id, instant)
              result == IF IsSome(found) THEN Unwrap(found) ELSE EndpointGet(reply)
          IN  /\ store' = IF IsSome(found) THEN store
                          ELSE cache_set(store, person_id, result, instant)
              /\ calls' = Append(calls, [person_id |-> person_id, at |-> instant,
                                         requested |-> ~IsSome(found), ok |-> result.ok])
    /\ instant' = instant
    /\ UNCHANGED <<tasks, key_locks, sent, handlerVars, probe>>

\* time passes between two calls: a second less than the lifespan, or the
\* lifespan
Elapse ==
    /\ \E d \in {CACHE_TIME - 1, CACHE_TIME} :
          /\ instant + d <= MaxInstant
          /\ instant' = instant + d
    /\ UNCHANGED <<store, calls, tasks, key_locks, sent, handlerVars, probe>>

NextCache == PersonGet \/ Elapse

SpecCache == Init /\ [][NextCache]_vars

-----------------------------------------------------------------------------
(* The cached person::get called by several tasks at once *)

\* replies of the upstream to the concurrent callers
SyncReplies ==
    {r \in UpstreamReplies : r.status \in {0, 200, 404} /\ r.code \in {None, Some(6)}}

\* what the upstream's person record says when it is fetched
PersonNames == {"Sigourney Weaver", "S. Weaver"}

\* a task calls person::get(&tmdb, person_id) and queues for the key's lock
Call(t) ==
    /\ tasks[t].pc = "idle"
    /\ \E person_id \in PersonIds :
          tasks' = [tasks EXCEPT ![t] = [pc |-> "lock", person_id |-> person_id,
                                         result |-> None]]
    /\ UNCHANGED <<store, instant, calls, key_locks, sent, handlerVars, probe>>

\* the task gets the key's lock and looks the key up: a live entry is
\* returned (and the lock dropped), otherwise the body starts under the lock
Acquire(t) ==
    /\ tasks[t].pc = "lock"
    /\ KeyLockFree(key_locks, tasks[t].person_id)
    /\ LET found == cache_get(store, tasks[t].person_id, instant)
       IN  IF IsSome(found)
           THEN /\ tasks' = [tasks EXCEPT ![t].pc = "done", ![t].result = found]
                /\ key_locks' = key_locks
           ELSE /\ tasks' = [tasks EXCEPT ![t].pc = "body"]
                /\ key_locks' = [key_locks EXCEPT ![tasks[t].person_id] = Some(t)]
    /\ UNCHANGED <<store, instant, calls, sent, handlerVars, probe>>

\* the body's upstream request is answered: the result goes through
\* cache_set, the lock is dropped and the task returns the result
Complete(t) ==
    /\ tasks[t].pc = "body"
    /\ \E reply \in SyncReplies, name \in PersonNames :
          LET r      == EndpointGet(reply)
              result == IF r.ok THEN Ok(name) ELSE r
          IN  /\ sent' = [sent EXCEPT ![tasks[t].person_id] = Append(@, result)]
              /\ store' = cache_set(store, tasks[t].person_id, result, instant)
              /\ tasks' = [tasks EXCEPT ![t].pc = "done", ![t].result = Some(result)]
    /\ key_locks' = [key_locks EXCEPT ![tasks[t].person_id] = None]
    /\ UNCHANGED <<instant, calls, handlerVars, probe>>

NextSync == \E t \in Tasks : Call(t) \/ Acquire(t) \/ Complete(t)

SpecSync == Init /\ [][NextSync]_vars

-----------------------------------------------------------------------------
(* Calls of the pure functions on their own: each behaviour makes one call, *)
(* from the initial state, and records its inputs and its result in probe. *)

\* query strings handed to deserialize_release_status: "1s", "5m", "5h",
\* "2 months", a malformed and an over-long duration
ProbeDurations ==
    {None} \cup {Some(RawDuration("secs", n)) : n \in {1, 300, 18000, 5259600}}
           \cup {Some(RawDuration("bad", 0)), Some(RawDuration("huge", 0))}

ProbeQueries ==
    [release_status : {None, Some("Unreleased"), Some("Released"), Some("HasReleaseDate"),
                       Some("NoReleaseDate"), Some("All"), Some("Upcoming")},
     max_time_until_release : ProbeDurations,
     max_age : ProbeDurations,
     min_age : ProbeDurations]

ProbeReleaseStatus ==
    /\ probe = NoProbe
    /\ \E raw \in ProbeQueries :
          probe' = [fn |-> "deserialize_release_status", raw |-> raw,
                    result |-> deserialize_release_status(raw)]
    /\ UNCHANGED pipeVars

\* one query string is deserialised as the handler's QueryArgs
ProbeQueryArgs ==
    /\ probe = NoProbe
    /\ \E raw \in PipeQueries :
          probe' = [fn |-> "QueryArgs", raw |-> raw, result |-> QueryArgsDeserialize(raw)]
    /\ UNCHANGED pipeVars

NextQuery == ProbeReleaseStatus \/ ProbeQueryArgs

SpecQuery == Init /\ [][NextQuery]_vars

\* the bounds handed to check: none, "0s", "1s", "36h", "2weeks", "6weeks",
\* and "300000years", which leads out of the range of NaiveDate
CheckDeltas ==
    {None} \cup {Some(TimeDeltaSeconds(n)) : n \in {0, 1, 129600}}
           \cup {Some(TimeDelta(n, 0)) : n \in {14, 42, 109575000}}

\* the release dates handed to check: none, NaiveDate::MIN, NaiveDate::MAX
\* and the days around now, now - 2 weeks, now - 6 weeks, now + 2 weeks and
\* now + 6 weeks
CheckDates ==
    {None, Some(NaiveDateMin), Some(NaiveDateMax)}
    \cup {Some(Today + k) : k \in (0 - MaxDayOffset)..MaxDayOffset}

CheckStatuses ==
    {Unreleased(b) : b \in CheckDeltas}
    \cup {Released(a, m) : a \in CheckDeltas, m \in CheckDeltas}
    \cup {HasReleaseDate(b, a) : b \in CheckDeltas, a \in CheckDeltas}
    \cup {NoReleaseDate, All}

\* one call of ReleaseStatus::check, the clock showing Today
ProbeCheck ==
    /\ probe = NoProbe
    /\ \E self \in CheckStatuses, date \in CheckDates :
          probe' = [fn |-> "check", self |-> self, release_date |-> date, now |-> clock,
                    result |-> check(self, date, clock)]
    /\ UNCHANGED pipeVars

SpecCheck == Init /\ [][ProbeCheck]_vars

SortDatePool == {None, Some(Date1990), Some(Date2025), Some(Date2026)}

\* a Vec<Option<NaiveDate>> is sorted with one of the comparators
ProbeSort ==
    /\ probe = NoProbe
    /\ \E by \in {"Descending", "Ascending", "handler"},
          dates \in SeqsUpTo(SortDatePool, MaxSortLen) :
          probe' = [fn |-> "sort_by", by |-> by, input |-> dates,
                    output |-> SortDates(dates, by)]
    /\ UNCHANGED pipeVars

\* a Vec of entries that differ (each carries its place in the input) is
\* sorted by date with one of the comparators
ProbeSortTagged ==
    /\ probe = NoProbe
    /\ \E by \in {"Descending", "Ascending", "handler"},
          dates \in SeqsUpTo(SortDatePool, MaxSortLen) :
          probe' = [fn |-> "sort_by_tagged", by |-> by, input |-> dates,
                    output |-> SortTagged(dates, by)]
    /\ UNCHANGED pipeVars

\* three optional dates are compared with one of the comparators
ProbeCompare ==
    /\ probe = NoProbe
    /\ \E by \in {"Descending", "Ascending", "handler"},
          a \in SortDatePool, b \in SortDatePool, c \in SortDatePool :
          probe' = [fn |-> "cmp", by |-> by, a |-> a, b |-> b, c |-> c,
                    aa |-> Compare(by, a, a), ab |-> Compare(by, a, b),
                    ba |-> Compare(by, b, a), bc |-> Compare(by, b, c),
                    ac |-> Compare(by, a, c)]
    /\ UNCHANGED pipeVars

NextSort == ProbeSort \/ ProbeSortTagged \/ ProbeCompare

SpecSort == Init /\ [][NextSort]_vars

ProbeSizeDefault ==
    /\ probe = NoProbe
    /\ probe' = [fn |-> "Size::default", raw |-> 0, result |-> Ok(SizeDefault)]
    /\ UNCHANGED pipeVars

ProbeSizeTryFrom ==
    /\ probe = NoProbe
    /\ \E n \in 0..MaxRawSize :
          probe' = [fn |-> "Size::try_from", raw |-> n, result |-> SizeTryFrom(n)]
    /\ UNCHANGED pipeVars

ProbeSizeDeserialize ==
    /\ probe = NoProbe
    /\ \E n \in (0 - 2)..MaxRawSize :
          probe' = [fn |-> "Size::deserialize", raw |-> n, result |-> SizeDeserialize(n)]
    /\ UNCHANGED pipeVars

NextSize == ProbeSizeDefault \/ ProbeSizeTryFrom \/ ProbeSizeDeserialize

SpecSize == Init /\ [][NextSize]_vars

\* credits handed to credit_guid: every hashed field varies, and so do
\* fields that are not hashed
GuidCast ==
    [media_type : {"Movie", "Tv"}, id : {1852, 1100}, title : {"Alien", "Brazil"},
     release_date : {None, Some(Today)}, character : {None, Some("Ripley")},
     genres : {<<"Horror">>}, overview : {None, Some("In space.")},
     original_language : {"en"}, credit_id : {"52fe431b", "5256c6e1"}]

GuidCrew ==
    [media_type : {"Movie", "Tv"}, id : {1852, 1100}, title : {"Alien", "Brazil"},
     release_date : {None, Some(Today)}, department : {"Directing"},
     job : {"Director", "Producer"}, genres : {<<"Horror">>}, overview : {None},
     original_language : {"en"}, credit_id : {"52fe4380", "65df4747"}]

GuidPool == {CreditCast(c) : c \in GuidCast} \cup {CreditCrew(c) : c \in GuidCrew}

ProbeGuid ==
    /\ probe = NoProbe
    /\ \E a \in GuidPool, b \in GuidPool :
          probe' = [fn |-> "credit_guid", a |-> a, b |-> b,
                    guid_a |-> credit_guid(a), guid_b |-> credit_guid(b)]
    /\ UNCHANGED pipeVars

SpecGuid == Init /\ [][ProbeGuid]_vars

-----------------------------------------------------------------------------
(* Building one feed item from one credit *)

ItemGenres == {<<>>, <<"Horror">>, <<"Horror", "Science Fiction">>}

ItemCast ==
    [media_type : {"Movie", "Tv"}, id : {1852}, title : {"Alien"},
     release_date : {None, Some(Today)},
     character : {None, Some("Ripley"), Some("<i>Ripley</i>")},
     genres : ItemGenres, overview : {None, Some("In space.")},
     original_language : {"en"}, credit_id : {"52fe431b"}]

ItemCrew ==
    [media_type : {"Movie", "Tv"}, id : {1852}, title : {"Alien"},
     release_date : {None, Some(Today)}, department : {"Directing"},
     job : {"Director", "Producer"}, genres : ItemGenres,
     overview : {None, Some("In space.")},
     original_language : {"en"}, credit_id : {"52fe4380"}]

ItemPool == {CreditCast(c) : c \in ItemCast} \cup {CreditCrew(c) : c \in ItemCrew}

\* one pass of the handler's for loop
ProbeItem ==
    /\ probe = NoProbe
    /\ \E credit \in ItemPool :
          probe' = [fn |-> "item", credit |-> credit, item |-> BuildItem(credit)]
    /\ UNCHANGED pipeVars

SpecItem == Init /\ [][ProbeItem]_vars

-----------------------------------------------------------------------------
(* Deserialising one entry of the upstream cast or crew list *)

\* MediaType::Movie, MediaType::Tv, MediaType::Unknown(String)
MediaTypeMovie == [tag |-> "Movie"]

MediaTypeTv == [tag |-> "Tv"]

MediaTypeUnknown(s) == [tag |-> "Unknown", s |-> s]

\* the media_type strings an entry may carry
MediaTypeStrings == {"movie", "tv", "TV", "    movie   ", "radio"}

\* str::trim on these strings
str_trim(s) == IF s = "    movie   " THEN "movie" ELSE s

\* str::to_lowercase on these strings
to_lowercase(s) == IF s = "TV" THEN "tv" ELSE s

\* the inner fn test of from_str
MediaTypeTest(s) ==
    IF s = "movie" THEN Some(MediaTypeMovie)
    ELSE IF s = "tv" THEN Some(MediaTypeTv)
    ELSE None

\* impl FromStr for MediaType; impl Deserialize for MediaType hands the
\* string to it
MediaTypeFromStr(str) ==
    LET s == str_trim(str)
    IN  IF IsSome(MediaTypeTest(s)) THEN Unwrap(MediaTypeTest(s))
        ELSE IF IsSome(MediaTypeTest(to_lowercase(s)))
        THEN Unwrap(MediaTypeTest(to_lowercase(s)))
        ELSE MediaTypeUnknown(s)

\* deserialize_potentially_empty_string: None and "" both give None
deserialize_potentially_empty_string(str) ==
    IF ~IsSome(str) THEN None
    ELSE IF Unwrap(str) = "" THEN None
    ELSE str

\* what deserialising an entry ends in: a value, a serde error, or a panic
DeOk(v) == [tag |-> "Ok", value |-> v]

DeErr(e) == [tag |-> "Err", err |-> e]

DePanic == [tag |-> "Panic"]

\* the part of Deserialize for Cast and for Crew after the joined struct was
\* read: settle the media type, then build the movie or the tv variant
JoinedDeserialize(data) ==
    LET fallback ==
            IF IsSome(data.title) \/ IsSome(data.original_title) THEN Some(MediaTypeMovie)
            ELSE IF IsSome(data.name) \/ IsSome(data.original_name) THEN Some(MediaTypeTv)
            ELSE None
        found == IF IsSome(data.media_type) THEN data.media_type ELSE fallback
        pair(x, y) ==
            CASE IsSome(x) /\ IsSome(y)  -> Some(<<Unwrap(x), Unwrap(y)>>)
              [] IsSome(x) /\ ~IsSome(y) -> Some(<<Unwrap(x), Unwrap(x)>>)
              [] ~IsSome(x) /\ IsSome(y) -> Some(<<Unwrap(y), Unwrap(y)>>)
              [] OTHER                   -> None
    IN  IF ~IsSome(found) THEN DeErr("unable to discern the media type")
        ELSE CASE Unwrap(found) = MediaTypeMovie ->
                    IF IsSome(pair(data.title, data.original_title))
                    THEN DeOk([media_type     |-> "Movie",
                               title          |-> Unwrap(pair(data.title, data.original_title))[1],
                               original_title |-> Unwrap(pair(data.title, data.original_title))[2]])
                    ELSE DeErr("missing field title or original_title")
               [] Unwrap(found) = MediaTypeTv ->
                    IF IsSome(pair(data.name, data.original_name))
                    THEN DeOk([media_type     |-> "Tv",
                               title          |-> Unwrap(pair(data.name, data.original_name))[1],
                               original_title |-> Unwrap(pair(data.name, data.original_name))[2]])
                    ELSE DeErr("missing field name or original_name")
               [] OTHER -> DePanic

\* the media_type field of the joined struct
JoinedMediaType(raw) ==
    IF IsSome(raw.media_type) THEN Some(MediaTypeFromStr(Unwrap(raw.media_type))) ELSE None

\* impl Deserialize for Cast: the four names go through
\* deserialize_potentially_empty_string
CastDeserialize(raw) ==
    IF ~raw.wellformed THEN DeErr("JoinedCast")
    ELSE JoinedDeserialize(
            [media_type     |-> JoinedMediaType(raw),
             title          |-> deserialize_potentially_empty_string(raw.title),
             original_title |-> deserialize_potentially_empty_string(raw.original_title),
             name           |-> deserialize_potentially_empty_string(raw.name),
             original_name  |-> deserialize_potentially_empty_string(raw.original_name)])

\* impl Deserialize for Crew: the four names are plain Option<String>
CrewDeserialize(raw) ==
    IF ~raw.wellformed THEN DeErr("JoinedCrew")
    ELSE JoinedDeserialize(
            [media_type     |-> JoinedMediaType(raw),
             title          |-> raw.title,
             original_title |-> raw.original_title,
             name           |-> raw.name,
             original_name  |-> raw.original_name])

\* entries of an upstream list; wellformed says whether the other fields the
\* joined struct requires are there with the right types
RawEntries ==
    [wellformed     : BOOLEAN,
     media_type     : {None} \cup {Some(m) : m \in MediaTypeStrings},
     title          : {None, Some(""), Some("Alien")},
     original_title : {None, Some("Alien")},
     name           : {None, Some(""), Some("Cheers")},
     original_name  : {None, Some("Cheers")}]

ProbeCastDeserialize ==
    /\ probe = NoProbe
    /\ \E raw \in RawEntries :
          probe' = [fn |-> "Cast::deserialize", raw |-> raw, result |-> CastDeserialize(raw)]
    /\ UNCHANGED pipeVars

ProbeCrewDeserialize ==
    /\ probe = NoProbe
    /\ \E raw \in RawEntries :
          probe' = [fn |-> "Crew::deserialize", raw |-> raw, result |-> CrewDeserialize(raw)]
    /\ UNCHANGED pipeVars

NextDeserialize == ProbeCastDeserialize \/ ProbeCrewDeserialize

SpecDeserialize == Init /\ [][NextDeserialize]_vars

-----------------------------------------------------------------------------
(* Properties *)

ProbeIs(fn) == probe.fn = fn

\* the dated entries of a list of optional dates, in list order
RECURSIVE Dated(_)
Dated(dates) ==
    IF dates = <<>> THEN <<>>
    ELSE IF IsSome(Head(dates)) THEN <<Head(dates)>> \o Dated(Tail(dates))
    ELSE Dated(Tail(dates))

Reverse(s) == [i \in DOMAIN s |-> s[Len(s) + 1 - i]]

\* no entry without a date stands before an entry with a date
UndatedLast(dates) ==
    \A i \in DOMAIN dates, j \in DOMAIN dates :
        (i < j /\ ~IsSome(dates[i])) => ~IsSome(dates[j])

\* no entry with a date stands before an entry without a date
UndatedFirst(dates) ==
    \A i \in DOMAIN dates, j \in DOMAIN dates :
        (i < j /\ IsSome(dates[i])) => IsSome(dates[j])

\* the same entries, each as often
IsPermutation(s, t) ==
    /\ Len(s) = Len(t)
    /\ \A x \in Range(s) \cup Range(t) : Count(x, s) = Count(x, t)

\* C1, as claimed: deserialize_release_status fails exactly when the status is
\* Released with both max_age and min_age present and max_age < min_age; in
\* particular Released with only min_age set is accepted.
C1_RejectsOnlyBothBoundsInverted ==
    ProbeIs("deserialize_release_status") =>
        LET r == ReleaseStatusDeserialize(probe.raw)
        IN  (~probe.result.ok) <=>
                /\ r.ok
                /\ r.value.tag = "Released"
                /\ IsSome(r.value.max_age)
                /\ IsSome(r.value.min_age)
                /\ TimeDeltaLt(Unwrap(r.value.max_age), Unwrap(r.value.min_age))

\* C2, as claimed: within one run of the handler every classification that
\* consults the clock sees the same date.
C2_SingleNowPerRun == Cardinality(nows) <= 1

\* C3, as claimed: in both sort directions the entries without a date come
\* after every entry with a date.
C3_UndatedLastBothDirections ==
    (ProbeIs("sort_by") /\ probe.by \in {"Descending", "Ascending"}) =>
        UndatedLast(probe.output)

\* C3, amended: Ascending puts the entries without a date after every dated
\* entry, Descending puts them before every dated entry; the dated entries of
\* the Descending result are those of the Ascending result in reverse; and
\* (2026-01-01, none, 1990-06-01) sorted Descending is
\* [none, 2026-01-01, 1990-06-01].
C3_UndatedPlacementByDirection ==
    (ProbeIs("sort_by") /\ probe.by \in {"Descending", "Ascending"}) =>
        /\ probe.by = "Ascending" => UndatedLast(probe.output)
        /\ probe.by = "Descending" => UndatedFirst(probe.output)
        /\ Dated(SortDates(probe.input, "Descending"))
              = Reverse(Dated(SortDates(probe.input, "Ascending")))
        /\ (probe.by = "Descending"
              /\ probe.input = <<Some(Date2026), None, Some(Date1990)>>)
           => probe.output = <<None, Some(Date2026), Some(Date1990)>>

\* C3 witness: the claim's example has been sorted Descending
C3_Witness ==
    /\ ProbeIs("sort_by")
    /\ probe.by = "Descending"
    /\ probe.input = <<Some(Date2026), None, Some(Date1990)>>
    /\ probe.output[1] = None

\* C4: sorting with the Descending comparator (SortReleaseDates::Descending or
\* the handler's sort_release_date_descending) gives a permutation of the
\* input with every absent date first and then the dates from latest to
\* earliest; sorting with Ascending gives a permutation with the dates from
\* earliest to latest and then every absent date.
C4_SortedShape ==
    ProbeIs("sort_by") =>
        LET out == probe.output
        IN  /\ IsPermutation(out, probe.input)
            /\ probe.by \in {"Descending", "handler"} =>
                  /\ UndatedFirst(out)
                  /\ \A i \in DOMAIN out, j \in DOMAIN out :
                        (i < j /\ IsSome(out[i]) /\ IsSome(out[j]))
                            => Unwrap(out[i]) >= Unwrap(out[j])
            /\ probe.by = "Ascending" =>
                  /\ UndatedLast(out)
                  /\ \A i \in DOMAIN out, j \in DOMAIN out :
                        (i < j /\ IsSome(out[i]) /\ IsSome(out[j]))
                            => Unwrap(out[i]) <= Unwrap(out[j])

\* C4 witness: a list holding an absent date and two different dates, out of
\* order, has been sorted with the handler's comparator
C4_Witness ==
    /\ ProbeIs("sort_by")
    /\ probe.by = "handler"
    /\ probe.input = <<Some(Date1990), None, Some(Date2026)>>
    /\ probe.output = <<None, Some(Date2026), Some(Date1990)>>

\* the number of items the request asks for: its size, or 20 without one
RequestedSize == IF IsSome(query.size) THEN Unwrap(query.size) ELSE 20

\* C5: when the handler is done, the number of items equals
\* min(size, number of merged credits the filter admitted).
C5_ItemCount ==
    pc = "done" => Len(items) = Min(RequestedSize, Len(filtered))

\* C5 witness: a finished run whose size cut the admitted credits short
C5_Witness ==
    /\ pc = "done"
    /\ RequestedSize > 0
    /\ Len(filtered) > RequestedSize
    /\ Len(items) = RequestedSize

\* C6: when the handler is done, `credits` is the admitted credits ordered by
\* the handler's comparator, the items are built from its first N entries in
\* that order, and no admitted credit that is left out compares Less than an
\* emitted one.
C6_FirstNOfSorted ==
    pc = "done" =>
        LET n == Len(items)
        IN  /\ IsPermutation(credits, filtered)
            /\ n <= Len(credits)
            /\ \A i \in 1..n : items[i] = BuildItem(credits[i])
            /\ \A i \in DOMAIN credits, j \in DOMAIN credits :
                  i < j => sort_release_date_descending(release_date(credits[j]),
                                                        release_date(credits[i])) # "Less"
            /\ \A i \in 1..n, j \in (n + 1)..Len(credits) :
                  sort_release_date_descending(release_date(credits[j]),
                                               release_date(credits[i])) # "Less"

\* C6 witness: a finished run that left out an admitted credit ranking
\* strictly after the emitted one, the sort having changed the order
C6_Witness ==
    /\ pc = "done"
    /\ Len(items) = 1
    /\ Len(credits) = 2
    /\ credits # filtered
    /\ sort_release_date_descending(release_date(credits[1]),
                                    release_date(credits[2])) = "Less"

\* C7, as claimed: every request that reaches the pipeline has
\* 1 <= size <= MAX_SIZE (50).
C7_SizeWithinBoundsInPipeline ==
    pc \in {"filter", "done"} => (1 <= RequestedSize /\ RequestedSize <= 50)

\* C8: Size::try_from(n) succeeds iff 1 <= n <= 50 and then holds n; 0 fails
\* with the integer-conversion error and n > 50 with ExceedsMaxSize;
\* Size::default() is 20; every Size obtained through Default, TryFrom or
\* Deserialize lies in 1..50, and DEFAULT <= MAX.
C8_SizeContract ==
    /\ DEFAULT_SIZE_USIZE <= MAX_SIZE_USIZE
    /\ ProbeIs("Size::try_from") =>
          /\ probe.result.ok <=> (1 <= probe.raw /\ probe.raw <= 50)
          /\ probe.result.ok => probe.result.value = probe.raw
          /\ probe.raw = 0 => probe.result.err = "TryFromInt"
          /\ probe.raw > 50 => probe.result.err = "ExceedsMaxSize"
    /\ ProbeIs("Size::default") => (probe.result.ok /\ probe.result.value = 20)
    /\ (probe.fn \in {"Size::default", "Size::try_from", "Size::deserialize"}
          /\ probe.result.ok)
       => (1 <= probe.result.value /\ probe.result.value <= 50)

\* C8 witness: Size::try_from accepted the largest size
C8_Witness ==
    /\ ProbeIs("Size::try_from")
    /\ probe.raw = 50
    /\ probe.result.ok

\* two credits agree on id, title, release date, media kind and role kind
SameFive(a, b) ==
    /\ id(a) = id(b)
    /\ title(a) = title(b)
    /\ release_date(a) = release_date(b)
    /\ media_type(a) = media_type(b)
    /\ credit_type(a) = credit_type(b)

\* C9, as claimed: no two items of one feed carry the same guid.
C9_GuidsDistinct ==
    pc = "done" =>
        \A i \in DOMAIN items, j \in DOMAIN items :
            i # j => items[i].guid # items[j].guid

\* C9, amended: the handler does not deduplicate. When the size does not cut
\* the admitted credits short, every admitted credit is emitted as often as it
\* was admitted; and emitted credits that agree on id, title, release date,
\* media kind and role kind carry the same guid.
C9_NoDeduplication ==
    pc = "done" =>
        /\ Len(filtered) <= RequestedSize =>
              \A c \in Range(filtered) :
                  Cardinality({i \in DOMAIN items : items[i] = BuildItem(c)})
                      >= Count(c, filtered)
        /\ \A i \in DOMAIN items, j \in DOMAIN items :
              SameFive(credits[i], credits[j]) => items[i].guid = items[j].guid

\* C9 witness: a feed holding two items with one guid, built from two credits
\* that differ (in the character)
C9_Witness ==
    /\ pc = "done"
    /\ Len(items) = 2
    /\ items[1].guid = items[2].guid
    /\ credits[1] # credits[2]

\* C10: two credits that agree on id, title, release date, media kind and
\* role kind get the same guid, whatever their other fields.
C10_GuidOfFiveFields ==
    ProbeIs("credit_guid") =>
        (SameFive(probe.a, probe.b) => probe.guid_a = probe.guid_b)

\* C10 witness: credit_guid gave one guid to two credits that agree on the
\* five fields and differ in character, overview and credit_id
C10_Witness ==
    /\ ProbeIs("credit_guid")
    /\ SameFive(probe.a, probe.b)
    /\ credit_type(probe.a) = "Cast"
    /\ probe.a.inner.character # probe.b.inner.character
    /\ probe.a.inner.overview # probe.b.inner.overview
    /\ probe.a.inner.credit_id # probe.b.inner.credit_id
    /\ probe.guid_a = probe.guid_b

\* the upstream call that failed, when the handler has returned early
FailedReply == upstream[Len(upstream)].reply

\* the reply is an error TMDB documents: a status other than 200 with a body
\* whose status_code is a row of the error table under that status
IsTmdbErrorReply(reply) ==
    /\ reply.sent
    /\ reply.status # 200
    /\ IsSome(reply.code)
    /\ \E i \in DOMAIN TmdbErrorTable :
          TmdbErrorTable[i][2] = Unwrap(reply.code) /\ TmdbErrorTable[i][3] = reply.status

C12_NoPipelineAfterUpstreamFailure ==
    /\ Len(upstream) <= 2
    /\ Len(upstream) >= 1 => upstream[1].endpoint = "person"
    /\ Len(upstream) = 2 =>
          /\ upstream[2].endpoint = "combined_credits"
          /\ EndpointGet(upstream[1].reply).ok
    /\ (\E i \in DOMAIN upstream : ~EndpointGet(upstream[i].reply).ok) =>
          /\ pc = "failed"
          /\ idx = 0 /\ filtered = <<>> /\ credits = <<>> /\ items = <<>>
          /\ IsSome(response)
          /\ Unwrap(response).body # "application/rss+xml"
    /\ pc \in {"filter", "done"} =>
          /\ Len(upstream) = 2
          /\ \A i \in DOMAIN upstream : EndpointGet(upstream[i].reply).ok

\* C12 witness: the person-details call failed and the handler returned
\* without a second request
C12_Witness ==
    /\ pc = "failed"
    /\ Len(upstream) = 1
    /\ upstream[1].endpoint = "person"
    /\ ~EndpointGet(upstream[1].reply).ok
    /\ items = <<>>

\* C13: with the cache enabled, once a call of person::get(id) has fetched
\* the person and returned Ok, every later call for that id made less than
\* CACHE_TIME (3600 s) after it is answered from the cache, with Ok and
\* without an upstream request: the upstream sees one request for that id
\* over the entry's lifetime.
C13_CachedWithinLifetime ==
    \A i \in DOMAIN calls, j \in DOMAIN calls :
        (/\ i < j
         /\ calls[i].person_id = calls[j].person_id
         /\ calls[i].requested /\ calls[i].ok
         /\ calls[j].at - calls[i].at < 3600)
        => /\ ~calls[j].requested
           /\ calls[j].ok
           /\ Cardinality({k \in i..j : calls[k].person_id = calls[i].person_id
                                          /\ calls[k].requested}) = 1

\* C13 witness: a call fetched the person, and a call for the same id 3599
\* seconds later was answered without an upstream request
C13_Witness ==
    \E i \in DOMAIN calls, j \in DOMAIN calls :
        /\ i < j
        /\ calls[i].person_id = calls[j].person_id
        /\ calls[i].requested /\ calls[i].ok
        /\ calls[j].at - calls[i].at = 3599
        /\ ~calls[j].requested

\* the call for the same id that follows call i
NextCallFor(i) ==
    CHOOSE j \in DOMAIN calls :
        /\ j > i
        /\ calls[j].person_id = calls[i].person_id
        /\ \A k \in (i + 1)..(j - 1) : calls[k].person_id # calls[i].person_id

HasNextCallFor(i) ==
    \E j \in DOMAIN calls : j > i /\ calls[j].person_id = calls[i].person_id

\* C14: a failed person::get(id) is not cached: a call that returned an error
\* made an upstream request, and so does the next call for the same id.
C14_ErrorsNotCached ==
    \A i \in DOMAIN calls :
        ~calls[i].ok =>
            /\ calls[i].requested
            /\ HasNextCallFor(i) => calls[NextCallFor(i)].requested

\* C14 witness: two calls for one id at the same instant both failed and
\* both made an upstream request
C14_Witness ==
    /\ Len(calls) >= 2
    /\ calls[1].person_id = calls[2].person_id
    /\ calls[1].at = calls[2].at
    /\ ~calls[1].ok /\ ~calls[2].ok
    /\ calls[1].requested /\ calls[2].requested

\* the date now + b (b cut to whole days) when it is a date, else None
NowPlus(b) ==
    IF probe.now + b.days <= NaiveDateMax THEN Some(probe.now + b.days) ELSE None

\* the date now - b (b cut to whole days) when it is a date, else None
NowMinus(b) ==
    IF probe.now - b.days >= NaiveDateMin THEN Some(probe.now - b.days) ELSE None

\* d is before the date now + b
BeforeNowPlus(d, b) == IsSome(NowPlus(b)) /\ d < Unwrap(NowPlus(b))

\* d is on or after the date now - a
NotBeforeNowMinus(d, a) == IsSome(NowMinus(a)) /\ d >= Unwrap(NowMinus(a))

\* d is on or before the date now - m
NotAfterNowMinus(d, m) == IsSome(NowMinus(m)) /\ d <= Unwrap(NowMinus(m))

\* C15: Unreleased{max_time_until_release = b}.check(d) is true when d is
\* absent, whatever b; when d is present it is true iff d > now and (b is
\* unset or d < now + b), now + b being the date b's whole days after now; a
\* date equal to now, or to now + b, is rejected.
C15_UnreleasedCheck ==
    (ProbeIs("check") /\ probe.self.tag = "Unreleased") =>
        LET b == probe.self.max_time_until_release
            d == probe.release_date
        IN  /\ ~IsSome(d) => probe.result = TRUE
            /\ IsSome(d) =>
                  (probe.result <=>
                      /\ Unwrap(d) > probe.now
                      /\ (~IsSome(b) \/ BeforeNowPlus(Unwrap(d), Unwrap(b))))
            /\ d = Some(probe.now) => probe.result = FALSE
            /\ (IsSome(b) /\ IsSome(d) /\ d = NowPlus(Unwrap(b))) => probe.result = FALSE

\* C15 witness: with a bound of six weeks, the date six weeks from now was
\* rejected
C15_Witness ==
    /\ ProbeIs("check")
    /\ probe.self = Unreleased(Some(TimeDelta(42, 0)))
    /\ probe.release_date = Some(probe.now + 42)
    /\ probe.result = FALSE

\* C16: Released{max_age = a, min_age = m}.check(d) is false when d is
\* absent; when d is present it is true iff d <= now and (a is unset or
\* d >= now - a) and (m is unset or d <= now - m), both bounds inclusive; with
\* both bounds unset it is true exactly for the dates d <= now.
C16_ReleasedCheck ==
    (ProbeIs("check") /\ probe.self.tag = "Released") =>
        LET a == probe.self.max_age
            m == probe.self.min_age
            d == probe.release_date
        IN  /\ ~IsSome(d) => probe.result = FALSE
            /\ IsSome(d) =>
                  (probe.result <=>
                      /\ Unwrap(d) <= probe.now
                      /\ (~IsSome(a) \/ NotBeforeNowMinus(Unwrap(d), Unwrap(a)))
                      /\ (~IsSome(m) \/ NotAfterNowMinus(Unwrap(d), Unwrap(m))))
            /\ (IsSome(d) /\ ~IsSome(a) /\ ~IsSome(m)) =>
                  (probe.result <=> Unwrap(d) <= probe.now)

\* C16 witness: with max_age six weeks and min_age two weeks, the date two
\* weeks before now was admitted
C16_Witness ==
    /\ ProbeIs("check")
    /\ probe.self = Released(Some(TimeDelta(42, 0)), Some(TimeDelta(14, 0)))
    /\ probe.release_date = Some(probe.now - 14)
    /\ probe.result = TRUE

\* C17: HasReleaseDate{max_time_until_release = b, max_age = a}.check(d) is
\* false when d is absent; when d is present it is true iff (b is unset or
\* d < now + b) and (a is unset or d >= now - a); with both bounds unset it is
\* true for every present date.
C17_HasReleaseDateCheck ==
    (ProbeIs("check") /\ probe.self.tag = "HasReleaseDate") =>
        LET b == probe.self.max_time_until_release
            a == probe.self.max_age
            d == probe.release_date
        IN  /\ ~IsSome(d) => probe.result = FALSE
            /\ IsSome(d) =>
                  (probe.result <=>
                      /\ (~IsSome(b) \/ BeforeNowPlus(Unwrap(d), Unwrap(b)))
                      /\ (~IsSome(a) \/ NotBeforeNowMinus(Unwrap(d), Unwrap(a))))
            /\ (IsSome(d) /\ ~IsSome(b) /\ ~IsSome(a)) => probe.result = TRUE

\* C17 witness: with max_time_until_release two weeks and max_age six weeks,
\* the date six weeks before now was admitted
C17_Witness ==
    /\ ProbeIs("check")
    /\ probe.self = HasReleaseDate(Some(TimeDelta(14, 0)), Some(TimeDelta(42, 0)))
    /\ probe.release_date = Some(probe.now - 42)
    /\ probe.result = TRUE

\* the bound o is set and the date it leads to from now (forward when
\* `forward`, else backward) is not a date
Overflows(o, forward) ==
    /\ IsSome(o)
    /\ IF forward THEN probe.now + Unwrap(o).days > NaiveDateMax
                  ELSE probe.now - Unwrap(o).days < NaiveDateMin

\* C18: check always returns a boolean; and when a bound of the variant is
\* set and leads from now to a date that is not representable, check returns
\* false for every present release date.
C18_OverflowNotAdmitted ==
    ProbeIs("check") =>
        /\ probe.result \in BOOLEAN
        /\ IsSome(probe.release_date) =>
              /\ (probe.self.tag = "Unreleased"
                    /\ Overflows(probe.self.max_time_until_release, TRUE))
                 => probe.result = FALSE
              /\ (probe.self.tag = "Released"
                    /\ (Overflows(probe.self.max_age, FALSE)
                          \/ Overflows(probe.self.min_age, FALSE)))
                 => probe.result = FALSE
              /\ (probe.self.tag = "HasReleaseDate"
                    /\ (Overflows(probe.self.max_time_until_release, TRUE)
                          \/ Overflows(probe.self.max_age, FALSE)))
                 => probe.result = FALSE

\* C18 witness: HasReleaseDate with a max_age of 300000 years rejected
\* yesterday's date
C18_Witness ==
    /\ ProbeIs("check")
    /\ probe.self = HasReleaseDate(None, Some(TimeDelta(109575000, 0)))
    /\ probe.release_date = Some(probe.now - 1)
    /\ probe.result = FALSE

\* C19: sorting is stable in both directions (and with the handler's
\* comparator): the output holds the entries of the input, and entries whose
\* dates compare Equal (the same date, or both absent) keep the relative
\* order they had in the input.
C19_SortStable ==
    ProbeIs("sort_by_tagged") =>
        LET out == probe.output
        IN  /\ Len(out) = Len(probe.input)
            /\ \A i \in DOMAIN out :
                  out[i].val \in DOMAIN probe.input /\ out[i].key = probe.input[out[i].val]
            /\ \A i \in DOMAIN out, j \in DOMAIN out :
                  (i < j /\ out[i].key = out[j].key) => out[i].val < out[j].val

\* C19 witness: sorted Ascending, two entries dated 2026-01-01 with an earlier
\* date between them have kept their order behind the entry that moved
C19_Witness ==
    /\ ProbeIs("sort_by_tagged")
    /\ probe.by = "Ascending"
    /\ probe.input = <<Some(Date2026), Some(Date1990), Some(Date2026)>>
    /\ probe.output[1].val = 2
    /\ probe.output[2].val = 1
    /\ probe.output[3].val = 3

\* C20, as claimed: the feed is ordered in the direction the request names in
\* sort_order: with sort_order=Ascending the dated items are in
\* non-decreasing release-date order, otherwise (Descending, the default) in
\* non-increasing order.
C20_SortsInRequestedDirection ==
    pc = "done" =>
        \A i \in DOMAIN items, j \in DOMAIN items :
            (i < j /\ IsSome(release_date(credits[i])) /\ IsSome(release_date(credits[j])))
            => IF sort_order = Some("Ascending")
               THEN Unwrap(release_date(credits[i])) <= Unwrap(release_date(credits[j]))
               ELSE Unwrap(release_date(credits[i])) >= Unwrap(release_date(credits[j]))

\* a query string without parameters
NoParameters(raw) == \A f \in DOMAIN raw : raw[f] = None

\* C21: a request with no query parameters is accepted, asks for 20 items,
\* filters with HasReleaseDate with both bounds unset, and is sorted as
\* SortReleaseDates::Descending sorts.
C21_Defaults ==
    (ProbeIs("QueryArgs") /\ NoParameters(probe.raw)) =>
        /\ probe.result.ok
        /\ ItemsSize(probe.result.value) = 20
        /\ probe.result.value.release_status = HasReleaseDate(None, None)
        /\ \A dates \in SeqsUpTo(SortDatePool, 2) :
              SortDates(dates, "handler") = SortDates(dates, "Descending")

\* C21 witness: the query string without parameters has been deserialised
C21_Witness ==
    /\ ProbeIs("QueryArgs")
    /\ NoParameters(probe.raw)
    /\ probe.result.ok
    /\ ~IsSome(probe.result.value.size)

\* C22: NoReleaseDate.check(d) is true iff d is absent and All.check(d) is
\* true for every d, whatever the current date.
C22_NoReleaseDateAndAll ==
    (ProbeIs("check") /\ probe.self.tag \in {"NoReleaseDate", "All"}) =>
        /\ probe.self.tag = "NoReleaseDate" =>
              (probe.result <=> ~IsSome(probe.release_date))
        /\ probe.self.tag = "All" => probe.result = TRUE
        /\ \A now \in {NaiveDateMin, Today - 1, Today + 1, NaiveDateMax} :
              check(probe.self, probe.release_date, now) = probe.result

\* C22 witness: All admitted a credit without a release date
C22_Witness ==
    /\ ProbeIs("check")
    /\ probe.self = All
    /\ probe.release_date = None
    /\ probe.result = TRUE

\* C24: deserialize_release_status fails with MaxAgeSmaller and nothing else;
\* when the parameters do not deserialise as a ReleaseStatus (unknown or
\* missing variant name, malformed or over-long duration) the result is Ok
\* with HasReleaseDate with both bounds unset.
C24_ParseFailureGivesDefault ==
    ProbeIs("deserialize_release_status") =>
        /\ ~probe.result.ok => probe.result.err = "MaxAgeSmaller"
        /\ ~ReleaseStatusDeserialize(probe.raw).ok =>
              (probe.result.ok /\ probe.result.value = HasReleaseDate(None, None))

\* C24 witness: release_status=Released with a malformed max_age was accepted
\* as the default
C24_Witness ==
    /\ ProbeIs("deserialize_release_status")
    /\ probe.raw.release_status = Some("Released")
    /\ probe.raw.max_age = Some(RawDuration("bad", 0))
    /\ probe.result.ok
    /\ probe.result.value.tag = "HasReleaseDate"

\* a bound cut to whole days
WholeDays(o) == IF IsSome(o) THEN Some(TimeDelta(Unwrap(o).days, 0)) ELSE None

\* the status with every bound cut to whole days
Truncated(self) ==
    CASE self.tag = "Unreleased" -> Unreleased(WholeDays(self.max_time_until_release))
      [] self.tag = "Released" -> Released(WholeDays(self.max_age), WholeDays(self.min_age))
      [] self.tag = "HasReleaseDate" ->
            HasReleaseDate(WholeDays(self.max_time_until_release), WholeDays(self.max_age))
      [] OTHER -> self

\* the bound is set and shorter than a day
UnderOneDay(o) == IsSome(o) /\ Unwrap(o).days = 0

\* C25: a bound decides as the bound cut to whole days decides; with
\* max_time_until_release shorter than a day Unreleased admits no credit that
\* has a release date, and with max_age shorter than a day (and no min_age)
\* Released admits exactly the credits released today.
C25_WholeDayGranularity ==
    ProbeIs("check") =>
        /\ check(Truncated(probe.self), probe.release_date, probe.now) = probe.result
        /\ (probe.self.tag = "Unreleased" /\ IsSome(probe.release_date)
              /\ UnderOneDay(probe.self.max_time_until_release))
           => probe.result = FALSE
        /\ (probe.self.tag = "Released" /\ IsSome(probe.release_date)
              /\ UnderOneDay(probe.self.max_age) /\ ~IsSome(probe.self.min_age))
           => (probe.result <=> probe.release_date = Some(probe.now))

\* C25 witness: Released with a max_age of one second rejected yesterday's
\* date
C25_Witness ==
    /\ ProbeIs("check")
    /\ probe.self = Released(Some(TimeDelta(0, 1)), None)
    /\ probe.release_date = Some(probe.now - 1)
    /\ probe.result = FALSE

\* the cast entries of the response followed by its crew entries
CastThenCrew ==
    [i \in DOMAIN cast |-> CreditCast(cast[i])] \o [i \in DOMAIN crew |-> CreditCrew(crew[i])]

\* C27: the merged sequence is the cast credits in upstream order followed
\* by the crew credits in upstream order, and in the sorted credits no crew
\* credit stands before a cast credit with an equal release date.
C27_MergeIsCastThenCrew ==
    /\ Merged(cast, crew) = CastThenCrew
    /\ pc = "done" =>
          \A i \in DOMAIN credits, j \in DOMAIN credits :
              (i < j /\ credit_type(credits[i]) = "Crew" /\ credit_type(credits[j]) = "Cast")
                  => release_date(credits[i]) # release_date(credits[j])

\* C27 witness: a cast and a crew credit with the same release date were
\* both kept and sorted
C27_Witness ==
    /\ pc = "done"
    /\ Len(cast) = 1 /\ Len(crew) = 1
    /\ Len(credits) = 2
    /\ credit_type(credits[1]) = "Cast"
    /\ credit_type(credits[2]) = "Crew"
    /\ release_date(credits[1]) = release_date(credits[2])

\* Ordering::reverse
OrderingReverse(o) ==
    CASE o = "Less" -> "Greater" [] o = "Greater" -> "Less" [] OTHER -> "Equal"

\* C28: for each direction the comparator is a consistent total order on
\* optional dates: cmp(a, a) is Equal, cmp(a, b) is the reverse of
\* cmp(b, a), the relation is transitive, and Equal is returned only for two
\* absent dates or twice the same date.
C28_ConsistentTotalOrder ==
    ProbeIs("cmp") =>
        /\ probe.aa = "Equal"
        /\ probe.ab = OrderingReverse(probe.ba)
        /\ (probe.ab # "Greater" /\ probe.bc # "Greater") => probe.ac # "Greater"
        /\ (probe.ab = "Less" /\ probe.bc # "Greater") => probe.ac = "Less"
        /\ (probe.ab # "Greater" /\ probe.bc = "Less") => probe.ac = "Less"
        /\ probe.ab = "Equal" => probe.a = probe.b

\* C28 witness: an absent date between two dates was compared in ascending
\* direction
C28_Witness ==
    /\ ProbeIs("cmp")
    /\ probe.by = "Ascending"
    /\ IsSome(probe.a) /\ ~IsSome(probe.b) /\ IsSome(probe.c)
    /\ probe.a # probe.c
    /\ probe.ab = "Less"
    /\ probe.bc = "Greater"

\* C29: the ttl written to the channel is 60, the minutes of the TTL
\* constant.
C29_TtlIsSixtyMinutes ==
    pc = "done" => Unwrap(response).channel.ttl = Some(ToString(60))

\* C30: the categories of an item are the media label, then the character
\* name (as sanitised) exactly when the credit is a Cast credit with a
\* character, then one category per genre in source order; a Crew credit
\* adds neither its department nor its job.
C30_CategoryList ==
    ProbeIs("item") =>
        LET c       == probe.credit
            cats    == probe.item.categories
            hasChar == credit_type(c) = "Cast" /\ IsSome(c.inner.character)
            lead    == IF hasChar THEN 2 ELSE 1
        IN  /\ Len(cats) = lead + Len(genres(c))
            /\ cats[1] = MediaTypeDisplay(media_type(c))
            /\ hasChar => cats[2] = sanitise_text(Unwrap(c.inner.character))
            /\ \A k \in DOMAIN genres(c) : cats[lead + k] = genres(c)[k]
            /\ credit_type(c) = "Crew" =>
                  (c.inner.department \notin Range(cats) /\ c.inner.job \notin Range(cats))

\* C30 witness: a Cast credit with a character and two genres got four
\* categories
C30_Witness ==
    /\ ProbeIs("item")
    /\ credit_type(probe.credit) = "Cast"
    /\ IsSome(probe.credit.inner.character)
    /\ Len(genres(probe.credit)) = 2
    /\ Len(probe.item.categories) = 4

\* C23: deserialising a cast or crew entry never panics: it ends in a credit
\* whose media kind is Movie or Tv, or in a deserialisation error.
C23_DeserializeNeverPanics ==
    (ProbeIs("Cast::deserialize") \/ ProbeIs("Crew::deserialize")) =>
        /\ probe.result.tag \in {"Ok", "Err"}
        /\ probe.result.tag = "Ok" => probe.result.value.media_type \in {"Movie", "Tv"}

\* the calls for person_id that have returned
Returned(person_id) ==
    {t \in Tasks : tasks[t].pc = "done" /\ tasks[t].person_id = person_id}

\* C26: with sync_writes = "by_key", when the upstream answers the
\* concurrent calls for one person id with success, one upstream request is
\* sent for that id and every caller returns its result; a caller that
\* cannot go on waits for a body that runs for its own id, never for
\* another id's.
C26_OneRequestPerKey ==
    /\ \A person_id \in PersonIds :
          (\A i \in DOMAIN sent[person_id] : sent[person_id][i].ok) =>
              /\ Len(sent[person_id]) <= 1
              /\ \A t \in Returned(person_id) :
                    /\ Len(sent[person_id]) = 1
                    /\ tasks[t].result = Some(sent[person_id][1])
    /\ \A t \in Tasks :
          (tasks[t].pc = "lock" /\ ~ENABLED Acquire(t)) =>
              \E u \in Tasks : /\ tasks[u].pc = "body"
                                /\ tasks[u].person_id = tasks[t].person_id

\* C26 witness: every task called for the same id, one request was sent and
\* answered with success, and all have returned
C26_Witness ==
    \E person_id \in PersonIds :
        /\ Returned(person_id) = Tasks
        /\ Len(sent[person_id]) = 1
        /\ sent[person_id][1].ok

====
